---- MODULE Spec2Model ----
(***************************************************************************)
(* geopyspark.geotrellis.geotiff.get: the binding that marshals the        *)
(* caller's keyword arguments, validates the S3-credentials constraint,    *)
(* installs the credentials for the duration of the read and forwards the  *)
(* call to the JVM's GeoTiffRDD.get.                                       *)
(*                                                                         *)
(* Each caller thread walks through get line by line (pc is the line it    *)
(* is about to execute).  The Hadoop configuration of the Spark session    *)
(* (conf) is the only state the threads share.                             *)
(***************************************************************************)
EXTENDS Integers, Sequences, FiniteSets, TLC

(***************************************************************************)
(* Python values.  A str is a sequence of one-character strings so that    *)
(* split(":") and str() are computed, not assumed.                         *)
(***************************************************************************)
None == [t |-> "none"]
PyInt(n) == [t |-> "int", n |-> n]
PyStr(s) == [t |-> "str", s |-> s]
PyList(xs) == [t |-> "list", xs |-> xs]
Credentials(id) == [t |-> "creds", id |-> id]
\* a keyword the call site does not pass (not a Python value)
Absent == [t |-> "omitted"]

\* bool(v) for the values that occur: None, "" , 0 and [] are falsy
Truthy(v) ==
    CASE v.t = "none" -> FALSE
      [] v.t = "int" -> v.n # 0
      [] v.t = "str" -> v.s # <<>>
      [] v.t = "list" -> v.xs # <<>>
      [] OTHER -> TRUE

\* an exception leaving get
Raise(kind, at) == [t |-> "error", kind |-> kind, at |-> at]

(***************************************************************************)
(* Bounds of the model.                                                    *)
(***************************************************************************)
\* one call passes at most this many of the forwarded optional keywords
MaxSupplied == 1
\* a list passed as uri has at most this many elements
MaxUris == 2

(***************************************************************************)
(* geopyspark.geotrellis.constants (imported at lines 4-10).               *)
(***************************************************************************)
DEFAULT_MAX_TILE_SIZE == 256
DEFAULT_PARTITION_BYTES == 1343225856
DEFAULT_CHUNK_SIZE == 65536
DEFAULT_GEOTIFF_TIME_TAG ==
    <<"T","I","F","F","T","A","G","_","D","A","T","E","T","I","M","E">>
DEFAULT_GEOTIFF_TIME_FORMAT ==
    <<"y","y","y","y",":","M","M",":","d","d"," ","H","H",":","m","m",":","s","s">>
DEFAULT_S3_CLIENT == <<"d","e","f","a","u","l","t">>

\* LayerType: the enumeration's values
LayerTypeValues == {<<"s","p","a","t","i","a","l">>,
                    <<"s","p","a","c","e","t","i","m","e">>}

\* LayerType(v): the member for a value, or ValueError
LayerType(v) ==
    IF v.t = "str" /\ v.s \in LayerTypeValues
    THEN [t |-> "LayerType", value |-> v.s]
    ELSE Raise("ValueError", 94)

\* LayerType._key_name(is_boundable)
KeyName(member, is_boundable) ==
    IF is_boundable
    THEN IF member.value = <<"s","p","a","t","i","a","l">>
         THEN PyStr(<<"S","p","a","t","i","a","l","K","e","y">>)
         ELSE PyStr(<<"S","p","a","c","e","T","i","m","e","K","e","y">>)
    ELSE IF member.value = <<"s","p","a","t","i","a","l">>
         THEN PyStr(<<"P","r","o","j","e","c","t","e","d","E","x","t","e","n","t">>)
         ELSE PyStr(<<"T","e","m","p","o","r","a","l","P","r","o","j","e","c","t","e","d",
                      "E","x","t","e","n","t">>)

(***************************************************************************)
(* The signature of get (lines 18-29).                                     *)
(***************************************************************************)
Required == {"layer_type", "uri"}
Optional == {"crs", "max_tile_size", "num_partitions", "chunk_size",
             "partition_bytes", "time_tag", "time_format", "delimiter",
             "s3_client", "s3_credentials"}
ParamNames == Required \cup Optional

\* the default of each optional parameter
Default(k) ==
    CASE k = "max_tile_size" -> PyInt(DEFAULT_MAX_TILE_SIZE)
      [] k = "chunk_size" -> PyInt(DEFAULT_CHUNK_SIZE)
      [] k = "partition_bytes" -> PyInt(DEFAULT_PARTITION_BYTES)
      [] k = "time_tag" -> PyStr(DEFAULT_GEOTIFF_TIME_TAG)
      [] k = "time_format" -> PyStr(DEFAULT_GEOTIFF_TIME_FORMAT)
      [] k = "s3_client" -> PyStr(DEFAULT_S3_CLIENT)
      [] OTHER -> None

\* binding the call's arguments to the parameters: locals() on entry
Bind(layer_type, uri, kw) ==
    [k \in ParamNames |->
        CASE k = "layer_type" -> layer_type
          [] k = "uri" -> uri
          [] OTHER -> IF kw[k] = Absent THEN Default(k) ELSE kw[k]]

(***************************************************************************)
(* Pure steps of get.                                                      *)
(***************************************************************************)
\* the filter "if v" in place of "if v is not None"
InputsTruthy(loc) ==
    [k \in {n \in DOMAIN loc : Truthy(loc[n])} |-> loc[k]]

\* line 89: {k: v for k, v in locals().items() if v is not None}
Inputs(loc) ==
    [k \in {n \in DOMAIN loc : loc[n] # None} |-> loc[k]]

\* dict.pop(k) without default: the dict without k (the caller checks k is there)
Pop(d, k) == [n \in (DOMAIN d) \ {k} |-> d[n]]

\* str(n) of an int: its decimal digits
Digit(d) == CASE d = 0 -> "0" [] d = 1 -> "1" [] d = 2 -> "2" [] d = 3 -> "3"
              [] d = 4 -> "4" [] d = 5 -> "5" [] d = 6 -> "6" [] d = 7 -> "7"
              [] d = 8 -> "8" [] d = 9 -> "9"
RECURSIVE Digits(_)
Digits(n) == IF n < 10 THEN <<Digit(n)>> ELSE Append(Digits(n \div 10), Digit(n % 10))

\* line 95: str(v) of an int or a str
StrOf(v) ==
    CASE v.t = "int" -> PyStr(IF v.n < 0 THEN <<"-">> \o Digits(-v.n) ELSE Digits(v.n))
      [] v.t = "str" -> v

\* line 98: uri if isinstance(uri, list) else [uri]
Uris(uri) == IF uri.t = "list" THEN uri ELSE PyList(<<uri>>)

\* s.split(":")[0]: the characters before the first colon, all of s without one
RECURSIVE SplitHead(_)
SplitHead(s) ==
    IF s = <<>> \/ Head(s) = ":" THEN <<>> ELSE <<Head(s)>> \o SplitHead(Tail(s))

\* line 107: uri.split(":")[0]; a list has no split
UriType(uri) ==
    IF uri.t = "str" THEN PyStr(SplitHead(uri.s)) ELSE Raise("AttributeError", 107)

(***************************************************************************)
(* geopyspark.geotrellis.s3: is_s3_uri and the set_s3_credentials context  *)
(* manager.                                                                *)
(***************************************************************************)
S3Schemes == {<<"s","3">>}

\* the URI that stands for the argument: the URI itself, or the first of a list
Representative(uri) == IF uri.t = "list" THEN uri.xs[1] ELSE uri

\* is_s3_uri(uri): the URI has a scheme and it is an S3 scheme
is_s3_uri(uri) ==
    LET s == Representative(uri).s
    IN  /\ \E i \in 1..Len(s) : s[i] = ":"
        /\ SplitHead(s) \in S3Schemes

\* set_s3_credentials.__enter__: the configuration with the credentials installed
\* for the backend; nothing is touched without credentials
SetS3CredentialsEnter(cf, credentials, scheme) ==
    IF Truthy(credentials) THEN [cf EXCEPT ![scheme.s] = credentials] ELSE cf

\* set_s3_credentials.__exit__: the previous value of the slot is put back
\* (None is "unset"), on a normal exit and on an exception alike
SetS3CredentialsExit(cf, credentials, scheme, previous) ==
    IF Truthy(credentials) THEN [cf EXCEPT ![scheme.s] = previous] ELSE cf

\* the condition without its "not"
_validate_s3_credentials_inverted(uri, credentials) ==
    IF Truthy(credentials) /\ is_s3_uri(uri)
    THEN Raise("RuntimeError", 123)
    ELSE None

\* lines 121-126
_validate_s3_credentials(uri, credentials) ==
    IF Truthy(credentials) /\ ~is_s3_uri(uri)
    THEN Raise("RuntimeError", 123)
    ELSE None

\* lines 100-103: inputs.pop('s3_credentials'), None on KeyError
PoppedCredentials(inp) ==
    IF "s3_credentials" \in DOMAIN inp THEN inp["s3_credentials"] ELSE None

\* the scope entered with s3_client, the neighbouring parameter
ScopeCredentialsWrongName(loc) == loc["s3_client"]

\* line 109: the credentials the scope is entered with
ScopeCredentials(loc) == loc["s3_credentials"]

\* line 118
RasterLayer(layer_type, srdd) ==
    [t |-> "RasterLayer", layer_type |-> layer_type, srdd |-> srdd]

(***************************************************************************)
(* The calls the model makes.                                              *)
(***************************************************************************)
Procs == {"t1", "t2"}

UriStrings == {PyStr(<<"s","3",":","a">>), PyStr(<<"h","d",":","b">>), PyStr(<<"c">>)}
\* the lists passed as uri: an S3 URI and a plain path, in every order
UriListItems == {PyStr(<<"s","3",":","a">>), PyStr(<<"c">>)}
UriLists == UNION {{PyList(xs) : xs \in [1..n -> UriListItems]} : n \in 1..MaxUris}
UriSingletons == {PyList(<<u>>) : u \in UriStrings}
ConfKeys == {SplitHead(u.s) : u \in UriStrings}

LayerTypeArgs == {PyStr(v) : v \in LayerTypeValues} \cup {PyStr(<<"b","o","g","u","s">>)}
CredentialArgs == {Credentials("A"), Credentials("B")}

\* the optional parameters that get forwards in the option mapping
Forwarded == Optional \ {"partition_bytes", "s3_credentials"}

\* what a call may pass for an optional keyword: None, or a value; the values
\* are the ones "v is not None" must tell from None: 0 and ""
Explicit(k) ==
    CASE k \in {"max_tile_size", "num_partitions", "chunk_size", "partition_bytes"}
            -> {None, PyInt(0)}
      [] k = "s3_credentials" -> {None} \cup CredentialArgs
      [] OTHER -> {None, PyStr(<<>>)}

NoKeywords == [k \in Optional |-> Absent]

\* the keyword arguments of a call that passes the forwarded keywords ks, and
\* partition_bytes and s3_credentials or not
Keywords(ks) ==
    {[k \in Optional |-> CASE k \in ks -> f[k]
                           [] k = "partition_bytes" -> pb
                           [] k = "s3_credentials" -> cr
                           [] OTHER -> Absent] :
        f \in {g \in [ks -> {None, PyInt(0), PyStr(<<>>)}] :
                  \A k \in ks : g[k] \in Explicit(k)},
        pb \in Explicit("partition_bytes") \cup {Absent},
        cr \in Explicit("s3_credentials") \cup {Absent}}

\* the calls of a caller that has the session to itself
SerialCalls ==
    {<<lt, u, kw>> : lt \in LayerTypeArgs, u \in UriStrings \cup UriLists,
                     kw \in UNION {Keywords(ks) : ks \in {x \in SUBSET Forwarded :
                                                     Cardinality(x) <= MaxSupplied}}}

\* the calls of callers that overlap: the arguments the credential scope reads
OverlappingCalls ==
    {<<PyStr(<<"s","p","a","t","i","a","l">>), u,
       [NoKeywords EXCEPT !["s3_credentials"] = c]>> :
        u \in UriStrings \cup UriSingletons, c \in {Absent} \cup CredentialArgs}

EngineErrors == {"Py4JJavaError", "Py4JNetworkError"}

(***************************************************************************)
(* State.                                                                  *)
(***************************************************************************)
VARIABLES
    serialized,   \* the callers take turns (the assumption of the design) or overlap
    conf,         \* the session's Hadoop configuration: S3 credentials per scheme
    conf0,        \* conf when the session was set up
    pc,           \* per caller: the line of get it is at
    kwargs,       \* per caller: the keywords its call passes
    locals,       \* per caller: the parameters of get, as the body reassigns them
    inputs,       \* per caller: the dict of line 89
    key,          \* per caller: line 94
    uris,         \* per caller: line 98
    uri_type,     \* per caller: line 107
    previous,     \* per caller: the slot's value set_s3_credentials saved on entry
    srdd,         \* per caller: what GeoTiffRDD.get returned
    raised,       \* per caller: the exception in flight inside the with block
    result,       \* per caller: what get returned or raised
    engineCalls,  \* per caller: how often its call invoked GeoTiffRDD.get
    engineArgs,   \* per caller: the arguments of that invocation
    scopeEnters,  \* per caller: how often its call entered set_s3_credentials
    scopeExits,   \* per caller: how often its call left set_s3_credentials
    confWrites,   \* per caller: how often its call wrote conf
    confAtCall    \* per caller: conf when its call began

callVars == <<kwargs, locals, inputs, key, uris, uri_type, previous, srdd, raised,
              result, engineCalls, engineArgs, scopeEnters, scopeExits, confWrites,
              confAtCall>>
vars == <<serialized, conf, conf0, pc, callVars>>

NoInputs == [k \in {} |-> None]
Idle == [k \in ParamNames |-> None]

Init ==
    /\ serialized \in BOOLEAN
    /\ conf \in {[k \in ConfKeys |-> IF k \in S3Schemes THEN c ELSE None] :
                    c \in {None, Credentials("session")}}
    /\ conf0 = conf
    /\ pc = [p \in Procs |-> "idle"]
    /\ kwargs = [p \in Procs |-> NoKeywords]
    /\ locals = [p \in Procs |-> Idle]
    /\ inputs = [p \in Procs |-> NoInputs]
    /\ key = [p \in Procs |-> None]
    /\ uris = [p \in Procs |-> None]
    /\ uri_type = [p \in Procs |-> None]
    /\ previous = [p \in Procs |-> None]
    /\ srdd = [p \in Procs |-> None]
    /\ raised = [p \in Procs |-> None]
    /\ result = [p \in Procs |-> None]
    /\ engineCalls = [p \in Procs |-> 0]
    /\ engineArgs = [p \in Procs |-> None]
    /\ scopeEnters = [p \in Procs |-> 0]
    /\ scopeExits = [p \in Procs |-> 0]
    /\ confWrites = [p \in Procs |-> 0]
    /\ confAtCall = [p \in Procs |-> conf]

\* get raises e: the frame is left as it is and the call is over
Fail(p, e) ==
    /\ result' = [result EXCEPT ![p] = e]
    /\ pc' = [pc EXCEPT ![p] = "done"]

(***************************************************************************)
(* get, line by line.                                                      *)
(***************************************************************************)
\* lines 18-29: a caller calls get; when the callers take turns no other call
\* is in progress
Call(p) ==
    /\ pc[p] = "idle"
    /\ serialized => \A q \in Procs \ {p} : pc[q] = "idle"
    /\ \E c \in (IF serialized THEN SerialCalls ELSE OverlappingCalls) :
        /\ kwargs' = [kwargs EXCEPT ![p] = c[3]]
        /\ locals' = [locals EXCEPT ![p] = Bind(c[1], c[2], c[3])]
    /\ confAtCall' = [confAtCall EXCEPT ![p] = conf]
    /\ pc' = [pc EXCEPT ![p] = "l89"]
    /\ UNCHANGED <<serialized, conf, conf0, inputs, key, uris, uri_type, previous,
                   srdd, raised, result, engineCalls, engineArgs, scopeEnters,
                   scopeExits, confWrites>>

\* line 89
BuildInputs(p) ==
    /\ pc[p] = "l89"
    /\ inputs' = [inputs EXCEPT ![p] = Inputs(locals[p])]
    /\ pc' = [pc EXCEPT ![p] = "l94"]
    /\ UNCHANGED <<serialized, conf, conf0, kwargs, locals, key, uris, uri_type,
                   previous, srdd, raised, result, engineCalls, engineArgs,
                   scopeEnters, scopeExits, confWrites, confAtCall>>

\* line 94 without the LayerType(...) lookup: the tag itself becomes the key
ResolveKeyUnchecked(p) ==
    /\ pc[p] = "l94"
    /\ IF "layer_type" \notin DOMAIN inputs[p]
       THEN /\ Fail(p, Raise("KeyError", 94))
            /\ UNCHANGED <<inputs, key>>
       ELSE /\ inputs' = [inputs EXCEPT ![p] = Pop(inputs[p], "layer_type")]
            /\ key' = [key EXCEPT ![p] = inputs[p]["layer_type"]]
            /\ pc' = [pc EXCEPT ![p] = "l95"]
            /\ UNCHANGED result
    /\ UNCHANGED <<serialized, conf, conf0, kwargs, locals, uris, uri_type, previous,
                   srdd, raised, engineCalls, engineArgs, scopeEnters, scopeExits,
                   confWrites, confAtCall>>

\* line 94: key = LayerType(inputs.pop('layer_type'))._key_name(False)
ResolveKey(p) ==
    /\ pc[p] = "l94"
    /\ IF "layer_type" \notin DOMAIN inputs[p]
       THEN /\ Fail(p, Raise("KeyError", 94))
            /\ UNCHANGED <<inputs, key>>
       ELSE LET member == LayerType(inputs[p]["layer_type"])
            IN  /\ inputs' = [inputs EXCEPT ![p] = Pop(inputs[p], "layer_type")]
                /\ IF member.t = "error"
                   THEN Fail(p, member) /\ UNCHANGED key
                   ELSE /\ key' = [key EXCEPT ![p] = KeyName(member, FALSE)]
                        /\ pc' = [pc EXCEPT ![p] = "l95"]
                        /\ UNCHANGED result
    /\ UNCHANGED <<serialized, conf, conf0, kwargs, locals, uris, uri_type, previous,
                   srdd, raised, engineCalls, engineArgs, scopeEnters, scopeExits,
                   confWrites, confAtCall>>

\* line 95: partition_bytes = str(inputs.pop('partition_bytes'))
PopPartitionBytes(p) ==
    /\ pc[p] = "l95"
    /\ IF "partition_bytes" \notin DOMAIN inputs[p]
       THEN /\ Fail(p, Raise("KeyError", 95))
            /\ UNCHANGED <<inputs, locals>>
       ELSE /\ locals' = [locals EXCEPT ![p]["partition_bytes"] =
                              StrOf(inputs[p]["partition_bytes"])]
            /\ inputs' = [inputs EXCEPT ![p] = Pop(inputs[p], "partition_bytes")]
            /\ pc' = [pc EXCEPT ![p] = "l97"]
            /\ UNCHANGED result
    /\ UNCHANGED <<serialized, conf, conf0, kwargs, key, uris, uri_type, previous,
                   srdd, raised, engineCalls, engineArgs, scopeEnters, scopeExits,
                   confWrites, confAtCall>>

\* lines 97-98: uri = inputs.pop('uri'); uris = uri if isinstance(uri, list) else [uri]
NormalizeUri(p) ==
    /\ pc[p] = "l97"
    /\ IF "uri" \notin DOMAIN inputs[p]
       THEN /\ Fail(p, Raise("KeyError", 97))
            /\ UNCHANGED <<inputs, locals, uris>>
       ELSE /\ locals' = [locals EXCEPT ![p]["uri"] = inputs[p]["uri"]]
            /\ uris' = [uris EXCEPT ![p] = Uris(inputs[p]["uri"])]
            /\ inputs' = [inputs EXCEPT ![p] = Pop(inputs[p], "uri")]
            /\ pc' = [pc EXCEPT ![p] = "l100"]
            /\ UNCHANGED result
    /\ UNCHANGED <<serialized, conf, conf0, kwargs, key, uri_type, previous, srdd,
                   raised, engineCalls, engineArgs, scopeEnters, scopeExits,
                   confWrites, confAtCall>>

\* lines 100-105: pop the credentials; when there are some, validate them
PopCredentials(p) ==
    /\ pc[p] = "l100"
    /\ LET credentials == PoppedCredentials(inputs[p])
           present == "s3_credentials" \in DOMAIN inputs[p]
           checked == IF present
                      THEN _validate_s3_credentials(locals[p]["uri"], credentials)
                      ELSE None
       IN  /\ locals' = [locals EXCEPT ![p]["s3_credentials"] = credentials]
           /\ inputs' = [inputs EXCEPT ![p] = Pop(inputs[p], "s3_credentials")]
           /\ IF checked.t = "error"
              THEN Fail(p, checked)
              ELSE pc' = [pc EXCEPT ![p] = "l107"] /\ UNCHANGED result
    /\ UNCHANGED <<serialized, conf, conf0, kwargs, key, uris, uri_type, previous,
                   srdd, raised, engineCalls, engineArgs, scopeEnters, scopeExits,
                   confWrites, confAtCall>>

\* line 107: uri_type = uri.split(":")[0]
SplitUri(p) ==
    /\ pc[p] = "l107"
    /\ LET token == UriType(locals[p]["uri"])
       IN  IF token.t = "error"
           THEN Fail(p, token) /\ UNCHANGED uri_type
           ELSE /\ uri_type' = [uri_type EXCEPT ![p] = token]
                /\ pc' = [pc EXCEPT ![p] = "l109"]
                /\ UNCHANGED result
    /\ UNCHANGED <<serialized, conf, conf0, kwargs, locals, inputs, key, uris,
                   previous, srdd, raised, engineCalls, engineArgs, scopeEnters,
                   scopeExits, confWrites, confAtCall>>

\* line 109: with set_s3_credentials(s3_credentials, uri_type)
EnterScope(p) ==
    /\ pc[p] = "l109"
    /\ LET credentials == ScopeCredentials(locals[p])
       IN  /\ previous' = [previous EXCEPT ![p] =
                  IF Truthy(credentials) THEN conf[uri_type[p].s] ELSE None]
           /\ conf' = SetS3CredentialsEnter(conf, credentials, uri_type[p])
           /\ confWrites' = [confWrites EXCEPT ![p] =
                  IF Truthy(credentials) THEN @ + 1 ELSE @]
    /\ scopeEnters' = [scopeEnters EXCEPT ![p] = @ + 1]
    /\ pc' = [pc EXCEPT ![p] = "l110"]
    /\ UNCHANGED <<serialized, conf0, kwargs, locals, inputs, key, uris, uri_type,
                   srdd, raised, result, engineCalls, engineArgs, scopeExits,
                   confAtCall>>

\* lines 110-116: geotiff_rdd.get(pysc._jsc.sc(), key, uris, inputs, partition_bytes)
\* is invoked
EngineCall(p) ==
    /\ pc[p] = "l110"
    /\ engineCalls' = [engineCalls EXCEPT ![p] = @ + 1]
    /\ engineArgs' = [engineArgs EXCEPT ![p] =
           [t |-> "args", key |-> key[p], uris |-> uris[p], options |-> inputs[p],
            partition_bytes |-> locals[p]["partition_bytes"]]]
    /\ pc' = [pc EXCEPT ![p] = "engine"]
    /\ UNCHANGED <<serialized, conf, conf0, kwargs, locals, inputs, key, uris,
                   uri_type, previous, srdd, raised, result, scopeEnters, scopeExits,
                   confWrites, confAtCall>>

\* the engine returns the handle of the layer
EngineReturn(p) ==
    /\ pc[p] = "engine"
    /\ srdd' = [srdd EXCEPT ![p] = [t |-> "JavaObject", from |-> engineArgs[p].key]]
    /\ pc' = [pc EXCEPT ![p] = "exit"]
    /\ UNCHANGED <<serialized, conf, conf0, kwargs, locals, inputs, key, uris,
                   uri_type, previous, raised, result, engineCalls, engineArgs,
                   scopeEnters, scopeExits, confWrites, confAtCall>>

\* the engine fails
EngineRaise(p) ==
    /\ pc[p] = "engine"
    /\ \E e \in EngineErrors : raised' = [raised EXCEPT ![p] = Raise(e, 110)]
    /\ pc' = [pc EXCEPT ![p] = "exit"]
    /\ UNCHANGED <<serialized, conf, conf0, kwargs, locals, inputs, key, uris,
                   uri_type, previous, srdd, result, engineCalls, engineArgs,
                   scopeEnters, scopeExits, confWrites, confAtCall>>

\* a translated error: what an except clause around the engine call would raise
PropagatedTranslated(e) ==
    IF e = None THEN None ELSE Raise("RuntimeError", 110)

\* lines 109-116 have no except clause: what leaves the with block is the
\* exception in flight (None without one)
Propagated(e) == e

\* an exit that only the normal path runs: enter and exit without try/finally
LeavesScopeOnSuccessOnly(e) == e = None

\* lines 109-116 are a with statement: __exit__ runs whether the body ended
\* normally or with the exception e in flight
LeavesScope(e) == TRUE

\* the end of the with block (line 116): the scope is left; an exception in
\* flight goes on to the caller
ExitScope(p) ==
    /\ pc[p] = "exit"
    /\ LET credentials == ScopeCredentials(locals[p])
       IN  IF LeavesScope(raised[p])
           THEN /\ conf' = SetS3CredentialsExit(conf, credentials, uri_type[p],
                                                previous[p])
                /\ confWrites' = [confWrites EXCEPT ![p] =
                       IF Truthy(credentials) THEN @ + 1 ELSE @]
                /\ scopeExits' = [scopeExits EXCEPT ![p] = @ + 1]
           ELSE UNCHANGED <<conf, confWrites, scopeExits>>
    /\ IF raised[p] # None
       THEN Fail(p, Propagated(raised[p]))
       ELSE pc' = [pc EXCEPT ![p] = "l118"] /\ UNCHANGED result
    /\ UNCHANGED <<serialized, conf0, kwargs, locals, inputs, key, uris, uri_type,
                   previous, srdd, raised, engineCalls, engineArgs, scopeEnters,
                   confAtCall>>

\* line 118: return RasterLayer(layer_type, srdd)
Return(p) ==
    /\ pc[p] = "l118"
    /\ result' = [result EXCEPT ![p] = RasterLayer(locals[p]["layer_type"], srdd[p])]
    /\ pc' = [pc EXCEPT ![p] = "done"]
    /\ UNCHANGED <<serialized, conf, conf0, kwargs, locals, inputs, key, uris,
                   uri_type, previous, srdd, raised, engineCalls, engineArgs,
                   scopeEnters, scopeExits, confWrites, confAtCall>>

\* the caller is done with the outcome of its call and, when the callers take
\* turns, the next call may come; callers that overlap make one call each
Discard(p) ==
    /\ pc[p] = "done"
    /\ serialized
    /\ pc' = [pc EXCEPT ![p] = "idle"]
    /\ kwargs' = [kwargs EXCEPT ![p] = NoKeywords]
    /\ locals' = [locals EXCEPT ![p] = Idle]
    /\ inputs' = [inputs EXCEPT ![p] = NoInputs]
    /\ key' = [key EXCEPT ![p] = None]
    /\ uris' = [uris EXCEPT ![p] = None]
    /\ uri_type' = [uri_type EXCEPT ![p] = None]
    /\ previous' = [previous EXCEPT ![p] = None]
    /\ srdd' = [srdd EXCEPT ![p] = None]
    /\ raised' = [raised EXCEPT ![p] = None]
    /\ result' = [result EXCEPT ![p] = None]
    /\ engineCalls' = [engineCalls EXCEPT ![p] = 0]
    /\ engineArgs' = [engineArgs EXCEPT ![p] = None]
    /\ scopeEnters' = [scopeEnters EXCEPT ![p] = 0]
    /\ scopeExits' = [scopeExits EXCEPT ![p] = 0]
    /\ confWrites' = [confWrites EXCEPT ![p] = 0]
    /\ confAtCall' = [confAtCall EXCEPT ![p] = conf]
    /\ UNCHANGED <<serialized, conf, conf0>>

Next ==
    \E p \in Procs :
        \/ Call(p)
        \/ BuildInputs(p)
        \/ ResolveKey(p)
        \/ PopPartitionBytes(p)
        \/ NormalizeUri(p)
        \/ PopCredentials(p)
        \/ SplitUri(p)
        \/ EnterScope(p)
        \/ EngineCall(p)
        \/ EngineReturn(p)
        \/ EngineRaise(p)
        \/ ExitScope(p)
        \/ Return(p)
        \/ Discard(p)

Spec == Init /\ [][Next]_vars

\* the callers take turns, as the design assumes
InitSerial == Init /\ serialized = TRUE
SpecSerial == InitSerial /\ [][Next]_vars

(***************************************************************************)
(* The calls the properties speak about.                                   *)
(***************************************************************************)
Called(p) == pc[p] # "idle"
Done(p) == pc[p] = "done"
\* the arguments of the call in progress
ArgLayerType(p) == locals[p]["layer_type"]
ArgUri(p) == locals[p]["uri"]
ArgCredentials(p) ==
    IF kwargs[p]["s3_credentials"] = Absent THEN None ELSE kwargs[p]["s3_credentials"]
KnownLayerType(p) == ArgLayerType(p).s \in LayerTypeValues
InsideScope(p) == pc[p] \in {"l110", "engine", "exit"}
Spatial == <<"s","p","a","t","i","a","l">>
SpaceTime == <<"s","p","a","c","e","t","i","m","e">>
ProjectedExtent == PyStr(<<"P","r","o","j","e","c","t","e","d","E","x","t","e","n","t">>)
TemporalProjectedExtent ==
    PyStr(<<"T","e","m","p","o","r","a","l","P","r","o","j","e","c","t","e","d",
            "E","x","t","e","n","t">>)

(***************************************************************************)
(* C1.  As stated: every call with s3_credentials supplied and a URI that  *)
(* is not an S3 URI ends with the RuntimeError of _validate_s3_credentials,*)
(* the engine not invoked, the scope not entered, the slot not written     *)
(* (read here for the calls whose partition_bytes is not None).            *)
(***************************************************************************)
C1_AlwaysConfigurationError ==
    \A p \in Procs :
        ( /\ Called(p)
          /\ Truthy(ArgCredentials(p))
          /\ ~is_s3_uri(ArgUri(p))
          /\ kwargs[p]["partition_bytes"] # None ) =>
            /\ engineCalls[p] = 0
            /\ scopeEnters[p] = 0
            /\ confWrites[p] = 0
            /\ Done(p) => result[p] = Raise("RuntimeError", 123)

\* C1, amended.  Every such call fails before the engine is invoked and
\* before the scope is entered (engine call count 0, slot never written); the
\* failure is the RuntimeError when layer_type is a known variant and
\* partition_bytes is not None, the ValueError of line 94 for an unknown
\* layer_type, and the KeyError of line 95 for partition_bytes=None.
C1_FailsBeforeEngine ==
    \A p \in Procs :
        (Called(p) /\ Truthy(ArgCredentials(p)) /\ ~is_s3_uri(ArgUri(p))) =>
            /\ engineCalls[p] = 0
            /\ scopeEnters[p] = 0
            /\ confWrites[p] = 0
            /\ pc[p] \in {"l89", "l94", "l95", "l97", "l100", "done"}
            /\ Done(p) =>
                 result[p] =
                    IF ~KnownLayerType(p) THEN Raise("ValueError", 94)
                    ELSE IF kwargs[p]["partition_bytes"] = None
                         THEN Raise("KeyError", 95)
                         ELSE Raise("RuntimeError", 123)

\* a call with credentials and a non-S3 URI has ended with the RuntimeError
C1_Witness ==
    \E p \in Procs :
        /\ Done(p)
        /\ Truthy(ArgCredentials(p))
        /\ ~is_s3_uri(ArgUri(p))
        /\ result[p] = Raise("RuntimeError", 123)
        /\ engineCalls[p] = 0

(***************************************************************************)
(* C2.  When the callers take turns: a call that entered the credential    *)
(* scope has left it exactly once when it ends, by return or by exception, *)
(* and the configuration is then what it was when the call began (unset    *)
(* included); a call with credentials wrote the slot twice, to install and *)
(* to restore.                                                             *)
(***************************************************************************)
C2_RestoredOnEveryExit ==
    \A p \in Procs :
        /\ scopeExits[p] <= scopeEnters[p]
        /\ scopeEnters[p] <= 1
        /\ (Done(p) /\ scopeEnters[p] = 1) =>
              /\ scopeExits[p] = 1
              /\ conf = confAtCall[p]
              /\ confWrites[p] = IF Truthy(ArgCredentials(p)) THEN 2 ELSE 0

\* a call with credentials, begun with the slot unset, has ended with the
\* engine's exception and the slot is unset again
C2_Witness ==
    \E p \in Procs :
        /\ Done(p)
        /\ Truthy(ArgCredentials(p))
        /\ scopeEnters[p] = 1
        /\ raised[p] # None
        /\ result[p] = raised[p]
        /\ confAtCall[p][<<"s","3">>] = None
        /\ conf = confAtCall[p]

(***************************************************************************)
(* C3.  As stated: in the options the engine receives, a forwarded         *)
(* optional parameter the caller omitted is no key, and one the caller     *)
(* passed is a key with the value passed.                                  *)
(***************************************************************************)
C3_OmittedNeverForwarded ==
    \A p \in Procs :
        engineCalls[p] > 0 =>
            \A k \in Forwarded :
                IF kwargs[p][k] = Absent
                THEN k \notin DOMAIN engineArgs[p].options
                ELSE /\ k \in DOMAIN engineArgs[p].options
                     /\ engineArgs[p].options[k] = kwargs[p][k]

\* C3, amended.  A forwarded optional parameter is a key of the options
\* exactly when its value, the one passed or else the default of the
\* signature, is not None, and then with that value: omitted crs,
\* num_partitions and delimiter are no keys; omitted max_tile_size,
\* chunk_size, time_tag, time_format and s3_client are keys with their
\* DEFAULT_ constants; a value passed, 0 and "" included, is a key with that
\* value; None passed is no key.  Nothing else is a key.
C3_NonNoneForwarded ==
    \A p \in Procs :
        engineCalls[p] > 0 =>
            LET options == engineArgs[p].options
            IN  /\ DOMAIN options \subseteq Forwarded
                /\ \A k \in Forwarded :
                     CASE kwargs[p][k] = None -> k \notin DOMAIN options
                       [] kwargs[p][k] = Absent /\ k \in {"crs", "num_partitions", "delimiter"}
                            -> k \notin DOMAIN options
                       [] kwargs[p][k] = Absent /\ k = "max_tile_size"
                            -> k \in DOMAIN options /\ options[k] = PyInt(256)
                       [] kwargs[p][k] = Absent /\ k = "chunk_size"
                            -> k \in DOMAIN options /\ options[k] = PyInt(65536)
                       [] kwargs[p][k] = Absent /\ k = "time_tag"
                            -> k \in DOMAIN options
                               /\ options[k] = PyStr(DEFAULT_GEOTIFF_TIME_TAG)
                       [] kwargs[p][k] = Absent /\ k = "time_format"
                            -> k \in DOMAIN options
                               /\ options[k] = PyStr(DEFAULT_GEOTIFF_TIME_FORMAT)
                       [] kwargs[p][k] = Absent /\ k = "s3_client"
                            -> k \in DOMAIN options
                               /\ options[k] = PyStr(DEFAULT_S3_CLIENT)
                       [] OTHER -> k \in DOMAIN options /\ options[k] = kwargs[p][k]

\* the engine was invoked by a call that passed max_tile_size=0 and omitted
\* crs: max_tile_size is a key with 0, crs is none
C3_Witness ==
    \E p \in Procs :
        /\ engineCalls[p] = 1
        /\ kwargs[p]["max_tile_size"] = PyInt(0)
        /\ kwargs[p]["crs"] = Absent
        /\ "max_tile_size" \in DOMAIN engineArgs[p].options
        /\ engineArgs[p].options["max_tile_size"] = PyInt(0)
        /\ "crs" \notin DOMAIN engineArgs[p].options

(***************************************************************************)
(* C4.  Two calls that differ only in passing the URI u as a string or as  *)
(* the list [u] fare alike: both invoke the engine or neither does, and    *)
(* with the same key, URI list, options and partition_bytes.               *)
(***************************************************************************)
C4_StringAndSingletonAgree ==
    \A p \in Procs : \A q \in Procs :
        ( /\ Done(p) /\ Done(q)
          /\ ArgLayerType(p) = ArgLayerType(q)
          /\ kwargs[p] = kwargs[q]
          /\ ArgUri(p).t = "str"
          /\ ArgUri(q) = PyList(<<ArgUri(p)>>) ) =>
            /\ engineCalls[p] = engineCalls[q]
            /\ engineArgs[p] = engineArgs[q]

(***************************************************************************)
(* C5.  A call with a non-empty list of URIs, a known layer type and no    *)
(* s3_credentials invokes the engine once, with the URIs of the list in    *)
(* their order and the key of the layer type (read here for the calls      *)
(* whose partition_bytes is not None).                                     *)
(***************************************************************************)
C5_ListReachesEngine ==
    \A p \in Procs :
        ( /\ Done(p)
          /\ ArgUri(p).t = "list"
          /\ KnownLayerType(p)
          /\ ArgCredentials(p) = None
          /\ kwargs[p]["partition_bytes"] # None ) =>
            /\ engineCalls[p] = 1
            /\ engineArgs[p].uris = ArgUri(p)
            /\ engineArgs[p].key = IF ArgLayerType(p).s = Spatial
                                   THEN ProjectedExtent ELSE TemporalProjectedExtent

(***************************************************************************)
(* C6.  No step of a call whose s3_credentials is unset (omitted or None)  *)
(* changes the configuration, the steps around the engine call included;   *)
(* such a call has nevertheless entered set_s3_credentials, with None,     *)
(* when it invokes the engine.                                             *)
(***************************************************************************)
C6_UnsetCredentialsLeaveConf ==
    /\ [][\A p \in Procs :
             (pc'[p] # pc[p] /\ ArgCredentials(p) = None) => conf' = conf]_vars
    /\ [](\A p \in Procs :
             (InsideScope(p) /\ ArgCredentials(p) = None) =>
                 /\ scopeEnters[p] = 1
                 /\ locals[p]["s3_credentials"] = None
                 /\ confWrites[p] = 0)

\* the engine runs for a call without credentials: the scope was entered and
\* the configuration is as the session set it up
C6_Witness ==
    \E p \in Procs :
        /\ pc[p] = "engine"
        /\ kwargs[p]["s3_credentials"] = None
        /\ scopeEnters[p] = 1
        /\ conf = conf0

(***************************************************************************)
(* C7.  A call invokes the engine at most once; when the invocation fails  *)
(* the call ends with that very exception; a call ends with an exception   *)
(* or with one RasterLayer of the requested layer type around the handle   *)
(* the engine returned.                                                    *)
(***************************************************************************)
C7_OneAttemptNoTranslation ==
    \A p \in Procs :
        /\ engineCalls[p] <= 1
        /\ Done(p) =>
             /\ result[p].t \in {"error", "RasterLayer"}
             /\ raised[p] # None => result[p] = raised[p]
             /\ result[p].t = "RasterLayer" =>
                  /\ engineCalls[p] = 1
                  /\ raised[p] = None
                  /\ srdd[p] # None
                  /\ result[p] = RasterLayer(ArgLayerType(p), srdd[p])

\* the engine failed and the call has ended with the engine's exception
C7_Witness ==
    \E p \in Procs :
        /\ Done(p)
        /\ engineCalls[p] = 1
        /\ raised[p] = Raise("Py4JJavaError", 110)
        /\ result[p] = Raise("Py4JJavaError", 110)

(***************************************************************************)
(* C8.  Two calls with different credentials on one session race for the   *)
(* slot when they overlap; when the callers take turns the engine of a     *)
(* call with credentials always runs with the slot holding them, and the   *)
(* configuration is the session's own whenever no call is in progress.     *)
(***************************************************************************)
\* the engine runs for p while the slot holds the credentials of the other call
RunsUnderOthers(p, q) ==
    /\ p # q
    /\ pc[p] = "engine"
    /\ Truthy(ArgCredentials(p))
    /\ Truthy(ArgCredentials(q))
    /\ ArgCredentials(p) # ArgCredentials(q)
    /\ conf[uri_type[p].s] = ArgCredentials(q)

C8_SerializedCallsDoNotRace ==
    serialized =>
        /\ \A p \in Procs :
              (pc[p] = "engine" /\ Truthy(ArgCredentials(p))) =>
                  conf[uri_type[p].s] = ArgCredentials(p)
        /\ (\A p \in Procs : pc[p] \in {"idle", "done"}) => conf = conf0

\* overlapping calls: one call's engine runs under the other's credentials
C8_Witness ==
    /\ ~serialized
    /\ \E p \in Procs : \E q \in Procs : RunsUnderOthers(p, q)

(***************************************************************************)
(* C9.  With a known layer type and a string URI, a call whose optional    *)
(* keywords are each omitted or None, one at least None, does not fail     *)
(* before the engine: it invokes the engine.                               *)
(***************************************************************************)
C9_NoneOnlyOmits ==
    \A p \in Procs :
        ( /\ Done(p)
          /\ KnownLayerType(p)
          /\ ArgUri(p).t = "str"
          /\ \A k \in Optional : kwargs[p][k] \in {Absent, None}
          /\ \E k \in Optional : kwargs[p][k] = None ) =>
            engineCalls[p] = 1

(***************************************************************************)
(* C10.  A call whose layer_type is no LayerType value gets no further     *)
(* than line 94: it ends with the ValueError of the lookup, the engine not *)
(* invoked, the credentials neither validated nor installed, whatever the  *)
(* URI and the credentials are.                                            *)
(***************************************************************************)
C10_UnknownLayerTypeFailsFirst ==
    \A p \in Procs :
        (Called(p) /\ ~KnownLayerType(p)) =>
            /\ pc[p] \in {"l89", "l94", "done"}
            /\ engineCalls[p] = 0
            /\ scopeEnters[p] = 0
            /\ confWrites[p] = 0
            /\ key[p] = None
            /\ Done(p) => result[p] = Raise("ValueError", 94)

\* a call with an unknown layer type, credentials and a non-S3 URI has ended
\* with the ValueError
C10_Witness ==
    \E p \in Procs :
        /\ Done(p)
        /\ ~KnownLayerType(p)
        /\ Truthy(ArgCredentials(p))
        /\ ~is_s3_uri(ArgUri(p))
        /\ result[p] = Raise("ValueError", 94)

====
